---- MODULE Spec2Model ----
(***************************************************************************)
(* A model of src/utility.js: parseJapaneseDateString, getAge,            *)
(* getAgeFromBirthday and getMaxSumRecordString, together with the part   *)
(* of the host's Date and String primitives that these functions call.    *)
(*                                                                         *)
(* A string is a sequence of characters, each character a TLA+ string.    *)
(* The six marker glyphs of the date format are written "nen", "gatsu",   *)
(* "nichi", "ji", "fun", "byou".  A time value is kept as the pair         *)
(* Day(t), TimeWithinDay(t) in whole seconds (no getter used by the        *)
(* program reads the milliseconds).                                        *)
(***************************************************************************)
EXTENDS Integers, Sequences, FiniteSets

VARIABLES
  zone,     \* the host's local time zone
  host,     \* the host's Date.parse fallback for unrecognised formats
  now,      \* the system clock: the time value `new Date()` reads
  date1,    \* first argument (dateInput, date1, birthday)
  date2,    \* second argument of getAge
  records,  \* first argument of getMaxSumRecordString
  keys,     \* second argument of getMaxSumRecordString
  pc,       \* "ready" before the call, the called function's name after it
  result    \* the outcome of the call: a returned value or a thrown error

vars == <<zone, host, now, date1, date2, records, keys, pc, result>>

----------------------------------------------------------------------------
(* JavaScript values *)

Digits == {"0", "1", "2", "3", "4", "5", "6", "7", "8", "9"}

Str(s) == [t |-> "string", s |-> s]
Null == [t |-> "null"]
Undefined == [t |-> "undefined"]
Num(n) == [t |-> "number", k |-> "fin", v |-> n]
NaN == [t |-> "number", k |-> "nan", v |-> 0]
PosInf == [t |-> "number", k |-> "inf", v |-> 0]
NegInf == [t |-> "number", k |-> "ninf", v |-> 0]

TimeValue(day, sec) == [nan |-> FALSE, day |-> day, sec |-> sec]
NaNTime == [nan |-> TRUE, day |-> 0, sec |-> 0]
DateObj(tv) == [t |-> "date", tv |-> tv]

Return(v) == [kind |-> "return", val |-> v]
Throw(name) == [kind |-> "throw", val |-> [t |-> "error", name |-> name]]
NoResult == [kind |-> "none", val |-> Undefined]

InvalidDateError == "Error: Invalid date provided"

----------------------------------------------------------------------------
(* Numbers: parseInt, String(number), arithmetic and comparison *)

DigitValue(c) ==
  CASE c = "0" -> 0 [] c = "1" -> 1 [] c = "2" -> 2 [] c = "3" -> 3
    [] c = "4" -> 4 [] c = "5" -> 5 [] c = "6" -> 6 [] c = "7" -> 7
    [] c = "8" -> 8 [] c = "9" -> 9

DigitChar(n) ==
  CASE n = 0 -> "0" [] n = 1 -> "1" [] n = 2 -> "2" [] n = 3 -> "3"
    [] n = 4 -> "4" [] n = 5 -> "5" [] n = 6 -> "6" [] n = 7 -> "7"
    [] n = 8 -> "8" [] n = 9 -> "9"

RECURSIVE parseInt(_)
parseInt(s) ==
  IF Len(s) = 0 THEN 0
  ELSE 10 * parseInt(SubSeq(s, 1, Len(s) - 1)) + DigitValue(s[Len(s)])

RECURSIVE NatToString(_)
NatToString(n) ==
  IF n < 10 THEN <<DigitChar(n)>>
  ELSE NatToString(n \div 10) \o <<DigitChar(n % 10)>>

NumberToString(x) ==
  CASE x.k = "nan" -> <<"N", "a", "N">>
    [] x.k = "inf" -> <<"I", "n", "f", "i", "n", "i", "t", "y">>
    [] x.k = "ninf" -> <<"-", "I", "n", "f", "i", "n", "i", "t", "y">>
    [] x.k = "fin" -> IF x.v < 0 THEN <<"-">> \o NatToString(-x.v)
                      ELSE NatToString(x.v)

\* a - b on the numbers the Date getters return (finite or NaN)
JSub(a, b) == IF a.k = "fin" /\ b.k = "fin" THEN Num(a.v - b.v) ELSE NaN

\* a + b, with the IEEE rules for the infinities and NaN
JAdd(a, b) ==
  CASE a.k = "nan" \/ b.k = "nan" -> NaN
    [] a.k = "inf" -> IF b.k = "ninf" THEN NaN ELSE PosInf
    [] a.k = "ninf" -> IF b.k = "inf" THEN NaN ELSE NegInf
    [] a.k = "fin" -> IF b.k = "fin" THEN Num(a.v + b.v) ELSE b

\* a < b; every comparison with NaN is false
JLt(a, b) ==
  CASE a.k = "nan" \/ b.k = "nan" -> FALSE
    [] a.k = "inf" -> FALSE
    [] a.k = "ninf" -> b.k # "ninf"
    [] a.k = "fin" -> \/ b.k = "inf"
                      \/ b.k = "fin" /\ a.v < b.v

JGt(a, b) == JLt(b, a)

\* a === b on numbers
JStrictEq(a, b) == a.k # "nan" /\ b.k # "nan" /\ a.k = b.k /\ a.v = b.v

\* a-- applied to a number
JDec(a) == JAdd(a, Num(-1))

----------------------------------------------------------------------------
(* The host's Date: day numbers, local time, constructor and getters *)

SecPerDay == 86400

IsLeap(y) == (y % 4 = 0 /\ y % 100 # 0) \/ y % 400 = 0

\* day number of 1 January of year y, counted from 1 January 1970
DayFromYear(y) ==
  365 * (y - 1970) + ((y - 1969) \div 4) - ((y - 1901) \div 100)
    + ((y - 1601) \div 400)

\* days of the year that precede month mn (0 = January)
DaysBeforeMonth(y, mn) ==
  LET leap == IF IsLeap(y) THEN 1 ELSE 0
  IN  CASE mn = 0 -> 0 [] mn = 1 -> 31 [] mn = 2 -> 59 + leap
        [] mn = 3 -> 90 + leap [] mn = 4 -> 120 + leap [] mn = 5 -> 151 + leap
        [] mn = 6 -> 181 + leap [] mn = 7 -> 212 + leap [] mn = 8 -> 243 + leap
        [] mn = 9 -> 273 + leap [] mn = 10 -> 304 + leap [] mn = 11 -> 334 + leap

DaysInMonth(y, mn) ==
  IF mn = 11 THEN 31 ELSE DaysBeforeMonth(y, mn + 1) - DaysBeforeMonth(y, mn)

\* MakeDay(year, month, date): months beyond 0..11 carry into the year, and the
\* date counts on from the first of the month, before or past its end
MakeDay(year, month, date) ==
  LET ym == year + (month \div 12)
      mn == month % 12
  IN  DayFromYear(ym) + DaysBeforeMonth(ym, mn) + date - 1

MakeTime(hour, min, sec) == hour * 3600 + min * 60 + sec

\* MakeDate(day, time), kept as the pair Day(t), TimeWithinDay(t)
MakeDate(day, time) ==
  TimeValue(day + (time \div SecPerDay), time % SecPerDay)

AddSeconds(tv, n) == MakeDate(tv.day, tv.sec + n)

Before(a, b) == a.day < b.day \/ (a.day = b.day /\ a.sec < b.sec)

\* the largest time value a Date holds, in days either side of the epoch
MaxDateDays == 100000000

TimeClip(tv) ==
  IF tv.nan THEN NaNTime
  ELSE IF tv.day > MaxDateDays \/ tv.day < -MaxDateDays THEN NaNTime
  ELSE tv

\* A zone has a standard offset (seconds east of UTC) and at most one forward
\* transition: on the local date gapDate, at gapSec seconds past midnight, the
\* clocks jump ahead by gapLen seconds (gapLen = 0: no transition).
Zones ==
  { [name |-> "Asia/Tokyo", off |-> 32400,
       gapDate |-> [year |-> 1970, month |-> 1, date |-> 1],
       gapSec |-> 0, gapLen |-> 0],
    [name |-> "America/New_York", off |-> -18000,
       gapDate |-> [year |-> 2000, month |-> 4, date |-> 2],
       gapSec |-> 7200, gapLen |-> 3600],
    [name |-> "America/Nuuk", off |-> -7200,
       gapDate |-> [year |-> 2024, month |-> 3, date |-> 30],
       gapSec |-> 82800, gapLen |-> 3600],
    [name |-> "Pacific/Apia", off |-> -36000,
       gapDate |-> [year |-> 2011, month |-> 12, date |-> 30],
       gapSec |-> 0, gapLen |-> 86400] }

\* the local time at which the zone's transition starts
GapStart(z) ==
  TimeValue(MakeDay(z.gapDate.year, z.gapDate.month - 1, z.gapDate.date),
            z.gapSec)

\* UTC(t): a local time the transition skips is read with the offset in force
\* before the transition
UTC(z, tl) ==
  IF z.gapLen = 0 \/ Before(tl, AddSeconds(GapStart(z), z.gapLen))
  THEN AddSeconds(tl, -z.off)
  ELSE AddSeconds(tl, -(z.off + z.gapLen))

\* LocalTime(t)
LocalTime(z, t) ==
  IF z.gapLen = 0 \/ Before(t, AddSeconds(GapStart(z), -z.off))
  THEN AddSeconds(t, z.off)
  ELSE AddSeconds(t, z.off + z.gapLen)

\* new Date(year, month, day, hour, minute, second): a year of 0..99 means
\* 1900 + year; the fields are local time
NewDateFields(z, year, month, day, hour, minute, second) ==
  LET yr == IF 0 <= year /\ year <= 99 THEN 1900 + year ELSE year
  IN  DateObj(TimeClip(UTC(z, MakeDate(MakeDay(yr, month, day),
                                        MakeTime(hour, minute, second)))))

\* The civil date of a day number, as a year, a month 0..11 and a day of month:
\* the day is placed in its 400-year era, then its year of the era, its day of
\* the year (counted from 1 March) and its month (March = 0) are read off.
YearOfEra(doe) ==
  (doe - (doe \div 1460) + (doe \div 36524) - (doe \div 146096)) \div 365

DayOfYear(doe, yoe) == doe - (365 * yoe + (yoe \div 4) - (yoe \div 100))

CivilFromMonth(era, yoe, doy, mp) ==
  [year |-> yoe + era * 400 + (IF mp >= 10 THEN 1 ELSE 0),
   month |-> (IF mp < 10 THEN mp + 3 ELSE mp - 9) - 1,
   date |-> doy - ((153 * mp + 2) \div 5) + 1]

CivilFromDayOfYear(era, yoe, doy) ==
  CivilFromMonth(era, yoe, doy, (5 * doy + 2) \div 153)

CivilFromYearOfEra(era, doe, yoe) ==
  CivilFromDayOfYear(era, yoe, DayOfYear(doe, yoe))

CivilFromEra(zz, era) ==
  CivilFromYearOfEra(era, zz - era * 146097, YearOfEra(zz - era * 146097))

CivilFromDay(day) == CivilFromEra(day + 719468, (day + 719468) \div 146097)

\* getTime(): NaN for an invalid Date, else a finite number (the program only
\* asks whether it is NaN; the day number stands for the milliseconds)
getTime(d) == IF d.tv.nan THEN NaN ELSE Num(d.tv.day)

isNaN(x) == x.k = "nan"

getFullYear(z, d) ==
  IF d.tv.nan THEN NaN ELSE Num(CivilFromDay(LocalTime(z, d.tv).day).year)

getMonth(z, d) ==
  IF d.tv.nan THEN NaN ELSE Num(CivilFromDay(LocalTime(z, d.tv).day).month)

getDate(z, d) ==
  IF d.tv.nan THEN NaN ELSE Num(CivilFromDay(LocalTime(z, d.tv).day).date)

getHours(z, d) ==
  IF d.tv.nan THEN NaN ELSE Num(LocalTime(z, d.tv).sec \div 3600)

getMinutes(z, d) ==
  IF d.tv.nan THEN NaN ELSE Num((LocalTime(z, d.tv).sec % 3600) \div 60)

getSeconds(z, d) ==
  IF d.tv.nan THEN NaN ELSE Num(LocalTime(z, d.tv).sec % 60)

----------------------------------------------------------------------------
(* parseJapaneseDateString *)

\* String(dateInput)
String(x) ==
  CASE x.t = "string" -> x.s
    [] x.t = "null" -> <<"n", "u", "l", "l">>
    [] x.t = "undefined" -> <<"u", "n", "d", "e", "f", "i", "n", "e", "d">>
    [] x.t = "number" -> NumberToString(x)

\* how many of the characters of s from position i on are digits, up to max
RECURSIVE DigitRun(_, _, _)
DigitRun(s, i, max) ==
  IF max = 0 \/ i > Len(s) THEN 0
  ELSE IF s[i] \in Digits THEN 1 + DigitRun(s, i + 1, max - 1)
  ELSE 0

NoField == [ok |-> FALSE, txt |-> <<>>, next |-> 0]

\* (\d{min,max}) followed by the marker glyph, matched at position i
MatchField(s, i, min, max, marker) ==
  LET n == DigitRun(s, i, max)
  IN  IF n >= min /\ i + n <= Len(s) /\ s[i + n] = marker
      THEN [ok |-> TRUE, txt |-> SubSeq(s, i, i + n - 1), next |-> i + n + 1]
      ELSE NoField

\* a field matched only where the previous one matched
ThenField(prev, s, min, max, marker) ==
  IF prev.ok THEN MatchField(s, prev.next, min, max, marker) ELSE NoField

NoMatch == [matched |-> FALSE, g |-> <<>>]

\* MatchEnd without the closing $: whatever follows the date is ignored
MatchEnd_Unanchored(s, y, mo, d, h, mi, se) ==
  IF ~d.ok THEN NoMatch
  ELSE IF se.ok
  THEN [matched |-> TRUE, g |-> <<y.txt, mo.txt, d.txt, h.txt, mi.txt, se.txt>>]
  ELSE [matched |-> TRUE, g |-> <<y.txt, mo.txt, d.txt, <<>>, <<>>, <<>> >>]

\* the end of the pattern: the optional time group, then $
MatchEnd(s, y, mo, d, h, mi, se) ==
  IF ~d.ok THEN NoMatch
  ELSE IF se.ok /\ se.next = Len(s) + 1
  THEN [matched |-> TRUE, g |-> <<y.txt, mo.txt, d.txt, h.txt, mi.txt, se.txt>>]
  ELSE IF d.next = Len(s) + 1
  THEN [matched |-> TRUE, g |-> <<y.txt, mo.txt, d.txt, <<>>, <<>>, <<>> >>]
  ELSE NoMatch

MatchSecond(s, y, mo, d, h, mi) ==
  MatchEnd(s, y, mo, d, h, mi, ThenField(mi, s, 1, 2, "byou"))

MatchMinute(s, y, mo, d, h) ==
  MatchSecond(s, y, mo, d, h, ThenField(h, s, 1, 2, "fun"))

MatchHour(s, y, mo, d) == MatchMinute(s, y, mo, d, ThenField(d, s, 1, 2, "ji"))

MatchDay(s, y, mo) == MatchHour(s, y, mo, ThenField(mo, s, 1, 2, "nichi"))

MatchMonth(s, y) == MatchDay(s, y, ThenField(y, s, 1, 2, "gatsu"))

\* dateString.match(/^(\d{4})nen(\d{1,2})gatsu(\d{1,2})nichi
\*                    (?:(\d{1,2})ji(\d{1,2})fun(\d{1,2})byou)?$/)
\* g[1..6] are the groups; a group that took no part in the match is <<>>
RegexMatch(s) == MatchMonth(s, MatchField(s, 1, 4, 4, "nen"))

\* match[i] ? parseInt(match[i], 10) : 0
GroupOrZero(g) == IF Len(g) > 0 THEN parseInt(g) ELSE 0

\* DateFromMatch with the written month passed on as it is, not 0-indexed
DateFromMatch_MonthNotShifted(z, g) ==
  NewDateFields(z, parseInt(g[1]), parseInt(g[2]), parseInt(g[3]),
                GroupOrZero(g[4]), GroupOrZero(g[5]), GroupOrZero(g[6]))

\* the branch taken on a match
DateFromMatch(z, g) ==
  LET year == parseInt(g[1])
      month == parseInt(g[2]) - 1
      day == parseInt(g[3])
      hour == GroupOrZero(g[4])
      minute == GroupOrZero(g[5])
      second == GroupOrZero(g[6])
  IN  NewDateFields(z, year, month, day, hour, minute, second)

MatchResult(z, match) ==
  IF match.matched THEN Return(DateFromMatch(z, match.g)) ELSE Return(Null)

parseJapaneseDateString(z, dateInput) ==
  IF dateInput.t = "date" THEN Return(dateInput)
  ELSE MatchResult(z, RegexMatch(String(dateInput)))

----------------------------------------------------------------------------
(* new Date(value) and Date.parse *)

MsPerDay == 86400000

AllDigits(s) == \A i \in 1..Len(s) : s[i] \in Digits

Hosts == {"strict", "lenient"}

\* "YYYY-MM-DD": a date-only ISO string is midnight UTC.  A day past the end
\* of its month (up to 31) is an illegal value; a lenient host rolls it over.
ParseIsoDate(h, s) ==
  LET y == parseInt(SubSeq(s, 1, 4))
      m == parseInt(SubSeq(s, 6, 7))
      d == parseInt(SubSeq(s, 9, 10))
  IN  IF m < 1 \/ m > 12 \/ d < 1 \/ d > 31 THEN NaNTime
      ELSE IF d > DaysInMonth(y, m - 1) /\ h = "strict" THEN NaNTime
      ELSE MakeDate(MakeDay(y, m - 1, d), 0)

\* "YYYY-MM-DDTHH:mm:ss": an ISO date-time without offset is local time
ParseIsoDateTime(z, h, s) ==
  LET day == ParseIsoDate(h, SubSeq(s, 1, 10))
      hh == parseInt(SubSeq(s, 12, 13))
      mi == parseInt(SubSeq(s, 15, 16))
      ss == parseInt(SubSeq(s, 18, 19))
  IN  IF day.nan \/ mi > 59 \/ ss > 59 \/ hh > 24
           \/ (hh = 24 /\ (mi > 0 \/ ss > 0))
      THEN NaNTime
      ELSE UTC(z, MakeDate(day.day, MakeTime(hh, mi, ss)))

\* "YYYY/M/D": not a format Date.parse must know; a lenient host reads it as a
\* local date, a strict host does not
ParseLegacy(z, h, s) ==
  LET y == MatchField(s, 1, 4, 4, "/")
      m == ThenField(y, s, 1, 2, "/")
      n == IF m.ok THEN Len(s) - m.next + 1 ELSE 0
      dtxt == IF m.ok THEN SubSeq(s, m.next, Len(s)) ELSE <<>>
  IN  IF h = "strict" \/ ~m.ok \/ n < 1 \/ n > 2 \/ ~AllDigits(dtxt) THEN NaNTime
      ELSE IF parseInt(m.txt) < 1 \/ parseInt(m.txt) > 12
                \/ parseInt(dtxt) < 1 \/ parseInt(dtxt) > 31
      THEN NaNTime
      ELSE UTC(z, MakeDate(MakeDay(parseInt(y.txt), parseInt(m.txt) - 1,
                                   parseInt(dtxt)), 0))

IsIsoDate(s) ==
  /\ Len(s) = 10
  /\ s[5] = "-" /\ s[8] = "-"
  /\ AllDigits(SubSeq(s, 1, 4)) /\ AllDigits(SubSeq(s, 6, 7))
  /\ AllDigits(SubSeq(s, 9, 10))

IsIsoDateTime(s) ==
  /\ Len(s) = 19
  /\ IsIsoDate(SubSeq(s, 1, 10))
  /\ s[11] = "T" /\ s[14] = ":" /\ s[17] = ":"
  /\ AllDigits(SubSeq(s, 12, 13)) /\ AllDigits(SubSeq(s, 15, 16))
  /\ AllDigits(SubSeq(s, 18, 19))

DateParse(z, h, s) ==
  IF IsIsoDate(s) THEN ParseIsoDate(h, s)
  ELSE IF IsIsoDateTime(s) THEN ParseIsoDateTime(z, h, s)
  ELSE ParseLegacy(z, h, s)

\* new Date(value): a string is parsed, anything else is converted to a number
\* of milliseconds (null is 0, undefined is NaN)
NewDateValue(z, h, x) ==
  CASE x.t = "date" -> DateObj(x.tv)
    [] x.t = "string" -> DateObj(TimeClip(DateParse(z, h, x.s)))
    [] x.t = "null" -> DateObj(TimeValue(0, 0))
    [] x.t = "undefined" -> DateObj(NaNTime)
    [] x.t = "number" ->
         IF x.k # "fin" THEN DateObj(NaNTime)
         ELSE DateObj(TimeClip(TimeValue(x.v \div MsPerDay,
                                         (x.v % MsPerDay) \div 1000)))

----------------------------------------------------------------------------
(* getAge and getAgeFromBirthday *)

\* parsed || new Date(x)
OrNewDate(z, h, parsed, x) ==
  IF parsed.t # "null" THEN parsed ELSE NewDateValue(z, h, x)

\* parseJapaneseDateString(x) || new Date(x)
Resolve(z, h, x) == OrNewDate(z, h, parseJapaneseDateString(z, x).val, x)

\* AgeOfResolved testing only d1 for validity
AgeOfResolved_ChecksFirstOnly(z, d1, d2) ==
  IF isNaN(getTime(d1))
  THEN Throw(InvalidDateError)
  ELSE
    LET age == JSub(getFullYear(z, d2), getFullYear(z, d1))
        monthDiff == JSub(getMonth(z, d2), getMonth(z, d1))
    IN  IF JLt(monthDiff, Num(0))
             \/ (JStrictEq(monthDiff, Num(0))
                   /\ JLt(getDate(z, d2), getDate(z, d1)))
        THEN Return(JDec(age))
        ELSE Return(age)

\* AgeOfResolved correcting on the month alone
AgeOfResolved_MonthOnly(z, d1, d2) ==
  IF isNaN(getTime(d1)) \/ isNaN(getTime(d2))
  THEN Throw(InvalidDateError)
  ELSE
    LET age == JSub(getFullYear(z, d2), getFullYear(z, d1))
        monthDiff == JSub(getMonth(z, d2), getMonth(z, d1))
    IN  IF JLt(monthDiff, Num(0)) THEN Return(JDec(age)) ELSE Return(age)

\* AgeOfResolved that, on the same day of the month, goes on to compare hours
AgeOfResolved_ComparesHours(z, d1, d2) ==
  IF isNaN(getTime(d1)) \/ isNaN(getTime(d2))
  THEN Throw(InvalidDateError)
  ELSE
    LET age == JSub(getFullYear(z, d2), getFullYear(z, d1))
        monthDiff == JSub(getMonth(z, d2), getMonth(z, d1))
    IN  IF JLt(monthDiff, Num(0))
             \/ (JStrictEq(monthDiff, Num(0))
                   /\ JLt(getDate(z, d2), getDate(z, d1)))
             \/ (JStrictEq(monthDiff, Num(0))
                   /\ JStrictEq(getDate(z, d2), getDate(z, d1))
                   /\ JLt(getHours(z, d2), getHours(z, d1)))
        THEN Return(JDec(age))
        ELSE Return(age)

\* AgeOfResolved with <= for < in the comparison of the days
AgeOfResolved_DayNotStrict(z, d1, d2) ==
  IF isNaN(getTime(d1)) \/ isNaN(getTime(d2))
  THEN Throw(InvalidDateError)
  ELSE
    LET age == JSub(getFullYear(z, d2), getFullYear(z, d1))
        monthDiff == JSub(getMonth(z, d2), getMonth(z, d1))
    IN  IF JLt(monthDiff, Num(0))
             \/ (JStrictEq(monthDiff, Num(0))
                   /\ ~JLt(getDate(z, d1), getDate(z, d2)))
        THEN Return(JDec(age))
        ELSE Return(age)

\* AgeOfResolved returning the absolute value of the difference
AgeOfResolved_Absolute(z, d1, d2) ==
  IF isNaN(getTime(d1)) \/ isNaN(getTime(d2))
  THEN Throw(InvalidDateError)
  ELSE
    LET age == JSub(getFullYear(z, d2), getFullYear(z, d1))
        monthDiff == JSub(getMonth(z, d2), getMonth(z, d1))
        corrected ==
          IF JLt(monthDiff, Num(0))
               \/ (JStrictEq(monthDiff, Num(0))
                     /\ JLt(getDate(z, d2), getDate(z, d1)))
          THEN JDec(age)
          ELSE age
    IN  IF JLt(corrected, Num(0)) THEN Return(JSub(Num(0), corrected))
        ELSE Return(corrected)

\* getAge once d1 and d2 are known
AgeOfResolved(z, d1, d2) ==
  IF isNaN(getTime(d1)) \/ isNaN(getTime(d2))
  THEN Throw(InvalidDateError)
  ELSE
    LET age == JSub(getFullYear(z, d2), getFullYear(z, d1))
        monthDiff == JSub(getMonth(z, d2), getMonth(z, d1))
    IN  IF JLt(monthDiff, Num(0))
             \/ (JStrictEq(monthDiff, Num(0))
                   /\ JLt(getDate(z, d2), getDate(z, d1)))
        THEN Return(JDec(age))
        ELSE Return(age)

getAge(z, h, a, b) == AgeOfResolved(z, Resolve(z, h, a), Resolve(z, h, b))

\* getAgeFromBirthday without the "birthday not yet reached" correction
getAgeFromBirthday_NoCorrection(z, clock, birthday) ==
  IF birthday.t # "date" THEN Throw("TypeError")
  ELSE Return(JSub(getFullYear(z, DateObj(clock)), getFullYear(z, birthday)))

\* today = new Date(); a birthday that is no Date has no getFullYear method,
\* and calling it raises a TypeError
getAgeFromBirthday(z, clock, birthday) ==
  IF birthday.t # "date" THEN Throw("TypeError")
  ELSE
    LET today == DateObj(clock)
        age == JSub(getFullYear(z, today), getFullYear(z, birthday))
        monthDiff == JSub(getMonth(z, today), getMonth(z, birthday))
    IN  IF JLt(monthDiff, Num(0))
             \/ (JStrictEq(monthDiff, Num(0))
                   /\ JLt(getDate(z, today), getDate(z, birthday)))
        THEN Return(JDec(age))
        ELSE Return(age)

----------------------------------------------------------------------------
(* getMaxSumRecordString *)

\* An object is the sequence of its own properties, <<key, value>>, in the
\* order for..in visits them; an array is [t |-> "array", items |-> <<...>>].
Array(items) == [t |-> "array", items |-> items]

HasOwn(record, key) == \E i \in 1..Len(record) : record[i][1] = key

\* record[key]
Get(record, key) ==
  IF HasOwn(record, key)
  THEN record[CHOOSE i \in 1..Len(record) : record[i][1] = key][2]
  ELSE Undefined

\* the inner loop: currentScore after keys[j..]
RECURSIVE SumKeys(_, _, _, _)
SumKeys(record, ks, j, currentScore) ==
  IF j > Len(ks) THEN currentScore
  ELSE
    LET value == Get(record, ks[j])
    IN  IF value.t = "number" /\ ~isNaN(value)
        THEN SumKeys(record, ks, j + 1, JAdd(currentScore, value))
        ELSE SumKeys(record, ks, j + 1, currentScore)

NoRecord == [found |-> FALSE, record |-> <<>>, score |-> NegInf]

\* the outer loop: maxRecord and maxScore after records[i..]
RECURSIVE ScanRecords(_, _, _, _)
ScanRecords(items, ks, i, max) ==
  IF i > Len(items) THEN max
  ELSE
    LET record == items[i]
        currentScore == SumKeys(record, ks, 1, Num(0))
    IN  IF JGt(currentScore, max.score)
        THEN ScanRecords(items, ks, i + 1,
                         [found |-> TRUE, record |-> record, score |-> currentScore])
        ELSE ScanRecords(items, ks, i + 1, max)

\* parts.join(', ') + ', ' with parts[i] = `${key}: ${value}`
RECURSIVE JoinParts(_, _)
JoinParts(record, i) ==
  IF i > Len(record) THEN <<",", " ">>
  ELSE (IF i > 1 THEN <<",", " ">> ELSE <<>>)
         \o <<record[i][1], ":", " ">> \o String(record[i][2])
         \o JoinParts(record, i + 1)

getMaxSumRecordString(recs, ks) ==
  IF recs.t # "array" THEN Return(Null)
  ELSE IF Len(recs.items) = 0 THEN Return(Null)
  ELSE
    LET max == ScanRecords(recs.items, ks, 1, NoRecord)
    IN  IF max.found THEN Return(Str(JoinParts(max.record, 1)))
        ELSE Return(Null)

----------------------------------------------------------------------------
(* The inputs the calls are made with *)

RECURSIVE Pad(_, _)
Pad(n, w) ==
  IF w = 1 THEN <<DigitChar(n % 10)>>
  ELSE Pad(n \div 10, w - 1) \o <<DigitChar(n % 10)>>

Txt(n) == NatToString(n)

DateText(y, m, d) == y \o <<"nen">> \o m \o <<"gatsu">> \o d \o <<"nichi">>

TimeText(h, mi, se) == h \o <<"ji">> \o mi \o <<"fun">> \o se \o <<"byou">>

YearTexts ==
  {Pad(0, 4), Pad(99, 4), Pad(100, 4), Pad(2000, 4), Pad(2011, 4),
   Pad(2024, 4), Pad(9999, 4)}

MonthTexts == {Txt(0), Txt(1), Pad(1, 2), Txt(2), Txt(4), Txt(12), Txt(13)}

DayTexts == {Txt(0), Txt(1), Pad(2, 2), Txt(29), Txt(30), Txt(31), Txt(32)}

HourTexts == {Txt(0), Pad(2, 2), Txt(23), Txt(24), Txt(99)}

MinuteTexts == {Txt(30), Txt(59), Txt(60)}

SecondTexts == {Txt(0), Txt(59), Txt(99)}

TimeTexts ==
  {<<>>} \cup {TimeText(h, mi, se) :
                 h \in HourTexts, mi \in MinuteTexts, se \in SecondTexts}

StructuredTexts ==
  {DateText(y, m, d) \o tt :
     y \in YearTexts, m \in MonthTexts, d \in DayTexts, tt \in TimeTexts}

\* strings one edit away from a structured string: a character removed,
\* replaced or inserted anywhere, the first and last position included
EditChars == {"1", "nen", "ji", "byou", "/", "!", "x", " "}

Edits(s) ==
  {SubSeq(s, 1, i - 1) \o SubSeq(s, i + 1, Len(s)) : i \in 1..Len(s)}
    \cup {SubSeq(s, 1, i - 1) \o <<c>> \o SubSeq(s, i + 1, Len(s)) :
            i \in 1..Len(s), c \in EditChars}
    \cup {SubSeq(s, 1, i) \o <<c>> \o SubSeq(s, i + 1, Len(s)) :
            i \in 0..Len(s), c \in EditChars}

EditedTexts ==
  Edits(DateText(Txt(2024), Txt(1), Txt(1)))
    \cup Edits(DateText(Txt(2024), Txt(12), Txt(31))
                 \o TimeText(Txt(23), Txt(59), Txt(59)))
    \cup {DateText(Txt(2024), Txt(1), Txt(1)) \o tt :
            tt \in {<<"1", "ji">>, <<"1", "ji", "2", "fun">>,
                    <<"1", "ji", "2", "fun", "3">>}}

NotADate == <<"n", "o", "t", "-", "a", "-", "d", "a", "t", "e">>

IsoDateText(y, m, d) == Pad(y, 4) \o <<"-">> \o Pad(m, 2) \o <<"-">> \o Pad(d, 2)

IsoDateTimeText(y, m, d, h, mi, se) ==
  IsoDateText(y, m, d) \o <<"T">> \o Pad(h, 2) \o <<":">> \o Pad(mi, 2)
    \o <<":">> \o Pad(se, 2)

SlashText(y, m, d) == Pad(y, 4) \o <<"/">> \o Txt(m) \o <<"/">> \o Txt(d)

FreeFormTexts ==
  {NotADate, <<>>, IsoDateText(2000, 1, 1), IsoDateText(2024, 2, 30),
   IsoDateText(2024, 13, 1), IsoDateTimeText(2024, 6, 15, 12, 0, 0),
   SlashText(2024, 6, 14)}

\* Date objects: two valid instants (UTC noon) and an invalid Date
DateObjects ==
  {DateObj(TimeValue(MakeDay(2000, 5, 15), 43200)),
   DateObj(TimeValue(MakeDay(2024, 0, 1), 43200)),
   DateObj(NaNTime)}

OtherValues == {Null, Undefined, Num(0), Num(MsPerDay), NaN}

ParseInputs ==
  {Str(s) : s \in StructuredTexts \cup EditedTexts \cup FreeFormTexts}
    \cup DateObjects \cup OtherValues

AgeYears == {2000, 2011, 2024}
AgeMonths == {1, 6, 13}
AgeDays == {1, 2, 14, 15, 32}

AgeTexts ==
  {DateText(Txt(y), Txt(m), Txt(d)) : y \in AgeYears, m \in AgeMonths, d \in AgeDays}
    \cup {DateText(Txt(2011), Txt(12), Txt(30)),
          DateText(Txt(2000), Txt(4), Txt(2)) \o TimeText(Txt(2), Txt(30), Txt(0)),
          DateText(Txt(2000), Txt(1), Txt(1)) \o TimeText(Txt(99), Txt(0), Txt(0)),
          DateText(Txt(2024), Txt(6), Txt(14)) \o TimeText(Txt(23), Txt(59), Txt(59)),
          DateText(Txt(2024), Txt(3), Txt(30)),
          DateText(Txt(2024), Txt(3), Txt(30)) \o TimeText(Txt(23), Txt(30), Txt(0)),
          DateText(Pad(50, 4), Txt(1), Txt(1))}

AgeInputs ==
  {Str(s) : s \in AgeTexts \cup FreeFormTexts} \cup DateObjects \cup OtherValues

\* readings of the system clock
Clocks ==
  {TimeValue(MakeDay(2024, 5, 14), 50000), TimeValue(MakeDay(2024, 5, 15), 43200),
   TimeValue(MakeDay(2024, 0, 1), 0), TimeValue(MakeDay(2000, 5, 15), 43200),
   TimeValue(MakeDay(1999, 11, 31), 86399)}

\* structured texts that differ in their time groups
TimedDates ==
  {DateText(Txt(2000), Txt(1), Txt(1)), DateText(Txt(2000), Txt(4), Txt(2)),
   DateText(Txt(2000), Txt(13), Txt(32)), DateText(Txt(2011), Txt(12), Txt(30)),
   DateText(Txt(2024), Txt(3), Txt(30)), DateText(Txt(2024), Txt(6), Txt(14))}

TimedTimes ==
  {<<>>, TimeText(Txt(2), Txt(30), Txt(0)), TimeText(Txt(23), Txt(30), Txt(0)),
   TimeText(Txt(24), Txt(0), Txt(0)), TimeText(Txt(99), Txt(0), Txt(0))}

TimedInputs == {Str(d \o tt) : d \in TimedDates, tt \in TimedTimes}

MaxRecords == 2

PropertyValuesA ==
  {Num(-1), Num(0), Num(1), NaN, NegInf, PosInf, Str(<<"x">>)}

PropertyValuesB == {Num(1), PosInf}

RecordObjects ==
  {<<>>} \cup {<<<<"a", v>>>> : v \in PropertyValuesA}
    \cup {<<<<"b", w>>>> : w \in PropertyValuesB}
    \cup {<<<<"a", v>>, <<"b", w>>>> : v \in PropertyValuesA, w \in PropertyValuesB}

RecordArrays ==
  UNION {[1..n -> RecordObjects] : n \in 0..MaxRecords}

KeyLists == {<<>>, <<"a">>, <<"b">>, <<"a", "b">>, <<"b", "a">>, <<"c">>, <<"a", "a">>}

----------------------------------------------------------------------------
(* The calls *)

Idle ==
  /\ pc = "ready"
  /\ result = NoResult

InitParse ==
  /\ zone \in Zones
  /\ host = "strict"
  /\ now = TimeValue(0, 0)
  /\ date1 \in ParseInputs
  /\ date2 = Undefined
  /\ records = Undefined
  /\ keys = <<>>
  /\ Idle

Init ==
  /\ zone \in Zones
  /\ host \in Hosts
  /\ now = TimeValue(0, 0)
  /\ date1 \in AgeInputs
  /\ date2 \in AgeInputs
  /\ records = Undefined
  /\ keys = <<>>
  /\ Idle

InitTime ==
  /\ zone \in Zones
  /\ host = "strict"
  /\ now = TimeValue(0, 0)
  /\ date1 \in TimedInputs
  /\ date2 \in TimedInputs
  /\ records = Undefined
  /\ keys = <<>>
  /\ Idle

InitBirthday ==
  /\ zone \in Zones
  /\ host \in Hosts
  /\ now \in Clocks
  /\ date1 \in AgeInputs
  /\ date2 = Undefined
  /\ records = Undefined
  /\ keys = <<>>
  /\ Idle

InitMax ==
  /\ zone \in {z \in Zones : z.gapLen = 0}
  /\ host = "strict"
  /\ now = TimeValue(0, 0)
  /\ date1 = Undefined
  /\ date2 = Undefined
  /\ records \in {Null, Undefined} \cup {Array(a) : a \in RecordArrays}
  /\ keys \in KeyLists
  /\ Idle

ParseCall ==
  /\ pc = "ready"
  /\ result' = parseJapaneseDateString(zone, date1)
  /\ pc' = "parseJapaneseDateString"
  /\ UNCHANGED <<zone, host, now, date1, date2, records, keys>>

GetAgeCall ==
  /\ pc = "ready"
  /\ result' = getAge(zone, host, date1, date2)
  /\ pc' = "getAge"
  /\ UNCHANGED <<zone, host, now, date1, date2, records, keys>>

GetAgeFromBirthdayCall ==
  /\ pc = "ready"
  /\ result' = getAgeFromBirthday(zone, now, date1)
  /\ pc' = "getAgeFromBirthday"
  /\ UNCHANGED <<zone, host, now, date1, date2, records, keys>>

GetMaxSumRecordStringCall ==
  /\ pc = "ready"
  /\ result' = getMaxSumRecordString(records, keys)
  /\ pc' = "getMaxSumRecordString"
  /\ UNCHANGED <<zone, host, now, date1, date2, records, keys>>

NextParse == ParseCall

Next == GetAgeCall

NextBirthday == GetAgeFromBirthdayCall

NextMax == GetMaxSumRecordStringCall

SpecParse == InitParse /\ [][NextParse]_vars

Spec == Init /\ [][Next]_vars

SpecTime == InitTime /\ [][Next]_vars

SpecBirthday == InitBirthday /\ [][NextBirthday]_vars

SpecMax == InitMax /\ [][NextMax]_vars

----------------------------------------------------------------------------
(* The date format and the calendar, stated for the properties below *)

\* the value a run of decimal digits denotes
RECURSIVE Decimal(_, _)
Decimal(txt, acc) ==
  IF Len(txt) = 0 THEN acc
  ELSE Decimal(Tail(txt), 10 * acc + DigitValue(Head(txt)))

\* where the glyph c stands in s, 0 if nowhere
PosOf(s, c) ==
  IF \E i \in 1..Len(s) : s[i] = c
  THEN CHOOSE i \in 1..Len(s) : s[i] = c /\ \A j \in 1..(i - 1) : s[j] # c
  ELSE 0

\* the characters of s strictly between positions a and b are 1..max digits
DigitsBetween(s, a, b, max) ==
  /\ b - a - 1 >= 1
  /\ b - a - 1 <= max
  /\ \A i \in (a + 1)..(b - 1) : s[i] \in Digits

\* YYYY nen M[M] gatsu D[D] nichi, and nothing else
IsDateOnly(s) ==
  /\ PosOf(s, "nen") = 5
  /\ DigitsBetween(s, 0, 5, 4)
  /\ DigitsBetween(s, 5, PosOf(s, "gatsu"), 2)
  /\ DigitsBetween(s, PosOf(s, "gatsu"), PosOf(s, "nichi"), 2)
  /\ PosOf(s, "nichi") = Len(s)

\* the same followed by H[H] ji M[M] fun S[S] byou
IsDateTime(s) ==
  /\ PosOf(s, "nen") = 5
  /\ DigitsBetween(s, 0, 5, 4)
  /\ DigitsBetween(s, 5, PosOf(s, "gatsu"), 2)
  /\ DigitsBetween(s, PosOf(s, "gatsu"), PosOf(s, "nichi"), 2)
  /\ DigitsBetween(s, PosOf(s, "nichi"), PosOf(s, "ji"), 2)
  /\ DigitsBetween(s, PosOf(s, "ji"), PosOf(s, "fun"), 2)
  /\ DigitsBetween(s, PosOf(s, "fun"), PosOf(s, "byou"), 2)
  /\ PosOf(s, "byou") = Len(s)

InGrammar(s) == IsDateOnly(s) \/ IsDateTime(s)

Between(s, a, b) == Decimal(SubSeq(s, PosOf(s, a) + 1, PosOf(s, b) - 1), 0)

\* the digit values written in a string of the grammar
Written(s) ==
  [year |-> Decimal(SubSeq(s, 1, 4), 0),
   month |-> Between(s, "nen", "gatsu"),
   day |-> Between(s, "gatsu", "nichi"),
   hour |-> IF IsDateTime(s) THEN Between(s, "nichi", "ji") ELSE 0,
   minute |-> IF IsDateTime(s) THEN Between(s, "ji", "fun") ELSE 0,
   second |-> IF IsDateTime(s) THEN Between(s, "fun", "byou") ELSE 0]

\* the fields the getters read from a Date, the month as 1..12
Read(z, d) ==
  [year |-> getFullYear(z, d).v,
   month |-> getMonth(z, d).v + 1,
   day |-> getDate(z, d).v,
   hour |-> getHours(z, d).v,
   minute |-> getMinutes(z, d).v,
   second |-> getSeconds(z, d).v]

CalendarDays(y, m) ==
  IF m \in {4, 6, 9, 11} THEN 30
  ELSE IF m # 2 THEN 31
  ELSE IF (y % 4 = 0 /\ y % 100 # 0) \/ y % 400 = 0 THEN 29
  ELSE 28

\* the fields name a date and a time of day of the calendar
InCalendar(f) ==
  /\ f.year >= 100
  /\ f.month >= 1 /\ f.month <= 12
  /\ f.day >= 1 /\ f.day <= CalendarDays(f.year, f.month)
  /\ f.hour <= 23 /\ f.minute <= 59 /\ f.second <= 59

\* the zone's clocks skip the local time the fields name
Skipped(z, f) ==
  /\ z.gapLen > 0
  /\ f.year = z.gapDate.year /\ f.month = z.gapDate.month /\ f.day = z.gapDate.date
  /\ f.hour * 3600 + f.minute * 60 + f.second >= z.gapSec
  /\ f.hour * 3600 + f.minute * 60 + f.second < z.gapSec + z.gapLen

\* the fields name a local time that exists in the zone
Exists(z, f) == InCalendar(f) /\ ~Skipped(z, f)

Parsed == pc = "parseJapaneseDateString"

----------------------------------------------------------------------------
(* Properties of parseJapaneseDateString, checked under SpecParse *)

\* C1 as stated: for every string of the grammar, whatever its digit values,
\* parseJapaneseDateString returns a date whose year, month (1-12), day, hour,
\* minute and second are the written values, the time being 0:0:0 when the
\* time group is absent.
C1_AsStated ==
  (Parsed /\ date1.t = "string" /\ InGrammar(date1.s))
    => /\ result.kind = "return"
       /\ result.val.t = "date"
       /\ ~result.val.tv.nan
       /\ Read(zone, result.val) = Written(date1.s)

\* C1 amended: for every string of the grammar parseJapaneseDateString
\* returns a valid date, and its fields are the written values when these name
\* a local date and time that exists: year >= 100, month 1-12, day within the
\* month, hour <= 23, minute <= 59, second <= 59, and not a local time the
\* host zone's clocks skip.
C1_ExistingLocalTime ==
  (Parsed /\ date1.t = "string" /\ InGrammar(date1.s))
    => /\ result.kind = "return"
       /\ result.val.t = "date"
       /\ ~result.val.tv.nan
       /\ Exists(zone, Written(date1.s))
            => Read(zone, result.val) = Written(date1.s)

C1_Witness ==
  /\ Parsed
  /\ date1 = Str(DateText(Txt(2024), Txt(12), Txt(31))
                   \o TimeText(Txt(23), Txt(59), Txt(59)))
  /\ result.kind = "return"
  /\ result.val.t = "date"
  /\ Read(zone, result.val)
       = [year |-> 2024, month |-> 12, day |-> 31,
          hour |-> 23, minute |-> 59, second |-> 59]

\* C2: parseJapaneseDateString never raises, and for every input that is no
\* Date and whose string form is not, as a whole, a string of the grammar, it
\* returns null.
C2_NullWhenNoMatch ==
  Parsed
    => /\ result.kind = "return"
       /\ (date1.t # "date" /\ ~InGrammar(String(date1)))
            => result.val = Null

C2_Witness ==
  /\ Parsed
  /\ date1 = Str(DateText(Txt(2024), Txt(1), Txt(1)) \o <<"!">>)
  /\ result = Return(Null)

----------------------------------------------------------------------------
(* Properties of getAge, checked under Spec (C5: SpecTime), and of          *)
(* getAgeFromBirthday, checked under SpecBirthday                          *)

AgeCalled == pc = "getAge"

Structured(x) == x.t = "string" /\ InGrammar(x.s)

\* the instant an input resolves to: the date format first, then whatever
\* the Date constructor makes of the value
Instant(z, h, x) ==
  IF x.t = "date" THEN x
  ELSE IF InGrammar(String(x)) THEN parseJapaneseDateString(z, x).val
  ELSE NewDateValue(z, h, x)

Valid(d) == ~d.tv.nan

BothValid ==
  Valid(Instant(zone, host, date1)) /\ Valid(Instant(zone, host, date2))

\* the year difference, less one when the second month and day come before
\* the first
AgeRule(f1, f2) ==
  (f2.year - f1.year)
    - (IF f2.month < f1.month \/ (f2.month = f1.month /\ f2.day < f1.day)
       THEN 1 ELSE 0)

\* C3: getAge fails with the invalid-date error exactly when one of its inputs
\* resolves to no valid instant (the date format tried first, then the Date
\* constructor); otherwise it returns an integer and does not raise.
C3_InvalidDateExactly ==
  AgeCalled
    => /\ ~BothValid => result = Throw(InvalidDateError)
       /\ BothValid => /\ result.kind = "return"
                       /\ result.val.t = "number"
                       /\ result.val.k = "fin"

C3_Witness ==
  /\ AgeCalled
  /\ date1 = Str(NotADate)
  /\ Valid(Instant(zone, host, date2))
  /\ result = Throw(InvalidDateError)

\* the year, month and day the original claim C4 reads from an input
FieldsAsStated(x) ==
  IF Structured(x) THEN Written(x.s) ELSE Read(zone, Instant(zone, host, x))

\* the same, the written fields being read only where they name a local time
\* that exists
FieldsAmended(x) ==
  IF Structured(x) /\ Exists(zone, Written(x.s)) THEN Written(x.s)
  ELSE Read(zone, Instant(zone, host, x))

\* C4 as stated: for inputs that resolve to valid dates getAge returns the
\* year difference, less 1 exactly when date2's month and day come before
\* date1's, where a structured text's year, month and day are those written.
C4_AsStated ==
  (AgeCalled /\ BothValid)
    => result = Return(Num(AgeRule(FieldsAsStated(date1), FieldsAsStated(date2))))

\* C4 amended: the same, a structured text's year, month and day being those
\* written when they name a local date and time that exists (year >= 100,
\* month 1-12, day within the month, time within the day, not skipped by the
\* host zone's clocks), and otherwise those of the date the Date constructor
\* normalises the written values to.
C4_AgeRule ==
  (AgeCalled /\ BothValid)
    => result = Return(Num(AgeRule(FieldsAmended(date1), FieldsAmended(date2))))

C4_Witness ==
  /\ AgeCalled
  /\ date1 = Str(DateText(Txt(2000), Txt(6), Txt(15)))
  /\ date2 = Str(DateText(Txt(2024), Txt(6), Txt(14)))
  /\ result = Return(Num(23))

\* the text up to and including the day glyph
DatePart(s) == SubSeq(s, 1, PosOf(s, "nichi"))

\* time groups put in the place of the written one
OtherTimes == TimedTimes

TimeInRange(f) == f.hour <= 23 /\ f.minute <= 59 /\ f.second <= 59

\* the zone's clocks skip the local time the written values are normalised to
SkippedLocal(z, f) ==
  LET yr == IF f.year <= 99 THEN 1900 + f.year ELSE f.year
      tl == MakeDate(MakeDay(yr, f.month - 1, f.day),
                     MakeTime(f.hour, f.minute, f.second))
  IN  /\ z.gapLen > 0
      /\ ~Before(tl, GapStart(z))
      /\ Before(tl, AddSeconds(GapStart(z), z.gapLen))

TimeKept(z, s) == TimeInRange(Written(s)) /\ ~SkippedLocal(z, Written(s))

\* C5 as stated: getAge returns the same for structured inputs that agree on
\* the year, month and day of date1 and of date2, whatever hour, minute and
\* second digits follow and whether or not a time group is written.
C5_AsStated ==
  (AgeCalled /\ Structured(date1) /\ Structured(date2))
    => \A t1 \in OtherTimes, t2 \in OtherTimes :
         getAge(zone, host, Str(DatePart(date1.s) \o t1),
                Str(DatePart(date2.s) \o t2)) = result

\* C5 amended: the same, for time groups with hour <= 23, minute <= 59 and
\* second <= 59 that name a local time the host zone's clocks do not skip.
C5_TimeIgnored ==
  (AgeCalled /\ Structured(date1) /\ Structured(date2)
     /\ TimeKept(zone, date1.s) /\ TimeKept(zone, date2.s))
    => \A t1 \in OtherTimes, t2 \in OtherTimes :
         (TimeKept(zone, DatePart(date1.s) \o t1)
            /\ TimeKept(zone, DatePart(date2.s) \o t2))
           => getAge(zone, host, Str(DatePart(date1.s) \o t1),
                     Str(DatePart(date2.s) \o t2)) = result

C5_Witness ==
  /\ AgeCalled
  /\ date1 = Str(DateText(Txt(2024), Txt(6), Txt(14))
                   \o TimeText(Txt(23), Txt(30), Txt(0)))
  /\ date2 = Str(DateText(Txt(2024), Txt(6), Txt(14)))
  /\ result = Return(Num(0))

\* C6: getAge(D, D) is 0 for every input D that resolves to a valid date.
C6_SameDateIsZero ==
  (AgeCalled /\ date1 = date2 /\ Valid(Instant(zone, host, date1)))
    => result = Return(Num(0))

C6_Witness ==
  /\ AgeCalled
  /\ date1 = Str(IsoDateText(2000, 1, 1))
  /\ date2 = date1
  /\ result = Return(Num(0))

\* date2's calendar day comes before date1's
EarlierDay(f1, f2) ==
  \/ f2.year < f1.year
  \/ f2.year = f1.year /\ f2.month < f1.month
  \/ f2.year = f1.year /\ f2.month = f1.month /\ f2.day < f1.day

\* C10: for inputs that resolve to valid dates the result is negative exactly
\* when date2's calendar day (year, month, day) is earlier than date1's, and
\* it is never turned into an absolute value.
C10_NegativeIffEarlier ==
  (AgeCalled /\ BothValid)
    => /\ result.kind = "return"
       /\ result.val.v < 0
            <=> EarlierDay(Read(zone, Instant(zone, host, date1)),
                           Read(zone, Instant(zone, host, date2)))

C10_Witness ==
  /\ AgeCalled
  /\ date1 = Str(DateText(Txt(2024), Txt(1), Txt(1)))
  /\ date2 = Str(DateText(Txt(2000), Txt(1), Txt(1)))
  /\ result = Return(Num(-24))

BirthdayCalled == pc = "getAgeFromBirthday"

\* C7 as stated: for every birthDate value getAgeFromBirthday ends as
\* getAge(birthDate, today) does at the same instant: with the same integer,
\* or with a failure when getAge fails.
C7_AsStated ==
  BirthdayCalled
    => /\ getAge(zone, host, date1, DateObj(now)).kind = "return"
            => result = getAge(zone, host, date1, DateObj(now))
       /\ getAge(zone, host, date1, DateObj(now)).kind = "throw"
            => result.kind = "throw"

\* C7 amended: for every birthDate that is a valid Date object
\* getAgeFromBirthday returns the integer getAge(birthDate, today) returns.
C7_ValidDateBirthday ==
  (BirthdayCalled /\ date1.t = "date" /\ Valid(date1))
    => /\ result.kind = "return"
       /\ result.val.k = "fin"
       /\ result = getAge(zone, host, date1, DateObj(now))

C7_Witness ==
  /\ BirthdayCalled
  /\ date1 = DateObj(TimeValue(MakeDay(2000, 5, 15), 43200))
  /\ now = TimeValue(MakeDay(2024, 5, 14), 50000)
  /\ result = Return(Num(23))

----------------------------------------------------------------------------
(* Properties of getMaxSumRecordString, checked under SpecMax *)

MaxCalled == pc = "getMaxSumRecordString"

HasRecords == records.t = "array" /\ Len(records.items) > 0

\* a value that counts towards a score: a number that is not NaN
Counts(v) == v.t = "number" /\ v.k # "nan"

\* the score of a record: the sum of its values under the keys that count
RECURSIVE ScoreOf(_, _)
ScoreOf(record, ks) ==
  IF Len(ks) = 0 THEN Num(0)
  ELSE LET v == Get(record, Head(ks))
       IN  IF Counts(v) THEN JAdd(v, ScoreOf(record, Tail(ks)))
           ELSE ScoreOf(record, Tail(ks))

\* a <= b on numbers
AtMost(a, b) == JLt(a, b) \/ JStrictEq(a, b)

\* record i has the greatest score of all
IsMaximal(i) ==
  \A j \in 1..Len(records.items) :
    AtMost(ScoreOf(records.items[j], keys), ScoreOf(records.items[i], keys))

\* the first of the records with the greatest score
IsFirstMaximal(i) ==
  /\ IsMaximal(i)
  /\ \A j \in 1..(i - 1) : ~IsMaximal(j)

\* no record has a value that counts under any of the keys
NoNumericValue ==
  \A i \in 1..Len(records.items) :
    \A j \in 1..Len(keys) : ~Counts(Get(records.items[i], keys[j]))

\* C8: getMaxSumRecordString returns null when records is missing or empty,
\* and when no record has a valid numeric value under the given keys.
C8_NullWithoutNumbers ==
  (MaxCalled /\ (~HasRecords \/ NoNumericValue)) => result = Return(Null)

\* C9: for a non-empty records sequence, getMaxSumRecordString selects the
\* record of lowest index among those whose score is the maximum over all
\* records.
C9_FirstMaximumWins ==
  (MaxCalled /\ HasRecords)
    => \A i \in 1..Len(records.items) :
         IsFirstMaximal(i) => result = Return(Str(JoinParts(records.items[i], 1)))

====
